---- MODULE Spec2Model ----
(***************************************************************************)
(* Model of the AI-Data-Analyst pipeline: analysis.py (run_code, ask_llm)  *)
(* and the "Run Analysis" handler of ap.py.                                *)
(*                                                                         *)
(* A snippet and a model response are sequences of tokens.  A token is a   *)
(* fence, the language tag, a newline, a comment marker, comment text, or  *)
(* one Python statement.  exec runs the statements of a snippet one by     *)
(* one; the process-wide state is sys.stdout and the open figures of       *)
(* matplotlib.pyplot.                                                      *)
(***************************************************************************)
EXTENDS Integers, Sequences, FiniteSets, TLC

\* ------------------------------------------------------------------ bounds
MaxOps == 3      \* statements of a snippet handed directly to run_code
MaxFigs == 2     \* open figures in the pyplot registry
MaxResp == 4     \* tokens of a model response

\* ------------------------------------------------------------------ tokens
Fence == "<fence>"      \* three backquotes
Tag == "python"
NL == "\n"
Hash == "#"

PrintOk == "print('ok')"
PrintBlank == "print()"
Plot == "plt.plot()"
ResultDf == "result = df"
ResultHead == "result = df.head()"
ResultInt == "result = 42"
ResultObj == "result = Obj()"
DivZero == "1/0"
Exit == "exit()"
PrintNoKey == "print('Please add OPENROUTER_API_KEY to .env file')"
PrintLlmErr == "print('LLM API Error')"

Whitespace == {NL, " "}

\* Statements a directly supplied snippet is built from.
Ops == {PrintOk, PrintBlank, Plot, ResultDf, ResultHead, ResultInt, ResultObj,
        DivZero, Exit}

\* Tokens a model response is built from.
RespTokens == {Fence, Tag, NL, PrintOk, Plot, DivZero, Exit}

SeqsUpTo(S, n) == UNION {[1..k -> S] : k \in 0..n}

Snippets == SeqsUpTo(Ops, MaxOps)
Responses == SeqsUpTo(RespTokens, MaxResp)

\* ------------------------------------------------------------------ values
Unbound == "<unbound>"
DataFrames == {"df", "df.head()"}
\* Variant of IsDataFrame that recognises the input table only.
IsInputTable(v) == v = "df"

\* isinstance(res, pd.DataFrame)
IsDataFrame(v) == v \in DataFrames
StrFaults(v) == v = "Obj()"
Str(v) == IF v = "int 42" THEN "42" ELSE "<no string form>"

ConsoleStream == "console"
BufferStream == "StringIO"

SuccessMessage == "Code successfully executed!"
ErrorMarker == "X Error: "
TempPng == "tmp.png"

NoFault == [kind |-> "none", desc |-> "", at |-> ""]
NoOutcome == [type |-> "none", body |-> <<>>]
ImageOutcome(path) == [type |-> "image", body |-> <<path>>]
TableOutcome(t) == [type |-> "dataframe", body |-> <<t>>]
TextOutcome(s) == [type |-> "text", body |-> s]
ErrorOutcome(desc) == TextOutcome(<<ErrorMarker, desc>>)

\* ------------------------------------------------------------ str.strip()
RECURSIVE LStrip(_)
LStrip(s) ==
    IF s # <<>> /\ Head(s) \in Whitespace THEN LStrip(Tail(s)) ELSE s

RECURSIVE RStrip(_)
RStrip(s) ==
    IF s # <<>> /\ s[Len(s)] \in Whitespace
    THEN RStrip(SubSeq(s, 1, Len(s) - 1))
    ELSE s

\* Variant of Strip that leaves the text as it is.
NoStrip(s) == s

Strip(s) == RStrip(LStrip(s))

\* ------------------------------------------------ exec: the snippet's text
\* The statements of a snippet: newlines separate them, a comment runs from
\* its marker to the end of the line.
RECURSIVE SkipLine(_)
SkipLine(s) ==
    IF s = <<>> \/ Head(s) = NL THEN s ELSE SkipLine(Tail(s))

RECURSIVE ParseStmts(_)
ParseStmts(s) ==
    IF s = <<>> THEN <<>>
    ELSE IF Head(s) \in Whitespace THEN ParseStmts(Tail(s))
    ELSE IF Head(s) = Hash THEN ParseStmts(SkipLine(Tail(s)))
    ELSE <<Head(s)>> \o ParseStmts(Tail(s))

Printed(stmt) ==
    CASE stmt = PrintOk -> <<"ok", NL>>
      [] stmt = PrintBlank -> <<NL>>
      [] stmt = PrintNoKey -> <<"Please add OPENROUTER_API_KEY to .env file", NL>>
      [] stmt = PrintLlmErr -> <<"LLM API Error", NL>>
      [] OTHER -> <<>>

Assigned(stmt) ==
    CASE stmt = ResultDf -> "df"
      [] stmt = ResultHead -> "df.head()"
      [] stmt = ResultInt -> "int 42"
      [] stmt = ResultObj -> "Obj()"
      [] OTHER -> Unbound

\* The fault one statement raises, NoFault when it raises none.
Raised(stmt) ==
    CASE stmt = DivZero ->
            [kind |-> "Exception", desc |-> "division by zero", at |-> "snippet"]
      [] stmt = Exit ->
            [kind |-> "SystemExit", desc |-> "None", at |-> "snippet"]
      [] stmt = Tag ->
            [kind |-> "Exception", desc |-> "name 'python' is not defined",
             at |-> "snippet"]
      [] OTHER -> NoFault

\* One statement run by exec against the process state (the figure registry,
\* the stream print writes to) and the snippet's locals.
ExecStmt(stmt, fg, out, buf, res) ==
    [figs   |-> IF stmt = Plot THEN fg + 1 ELSE fg,
     buffer |-> IF out = BufferStream THEN buf \o Printed(stmt) ELSE buf,
     result |-> IF Assigned(stmt) # Unbound THEN Assigned(stmt) ELSE res,
     fault  |-> Raised(stmt)]

\* ------------------------------------------- run_code: choosing the outcome
\* Variant of SelectOutcome that looks at `result` before the figure registry.
SelectResultFirst(fg, res, text, save_ok) ==
    IF res # Unbound /\ IsDataFrame(res)
    THEN [outcome |-> TableOutcome(res), figs |-> fg, fault |-> NoFault]
    ELSE IF res # Unbound /\ ~StrFaults(res)
    THEN [outcome |-> TextOutcome(<<Str(res)>>), figs |-> fg, fault |-> NoFault]
    ELSE IF fg > 0 /\ save_ok
    THEN [outcome |-> ImageOutcome(TempPng), figs |-> 0, fault |-> NoFault]
    ELSE IF fg > 0 \/ res # Unbound
    THEN [outcome |-> NoOutcome, figs |-> fg,
          fault |-> [kind |-> "Exception", desc |-> "savefig failed",
                     at |-> "capture"]]
    ELSE IF Strip(text) # <<>>
    THEN [outcome |-> TextOutcome(text), figs |-> fg, fault |-> NoFault]
    ELSE [outcome |-> TextOutcome(<<SuccessMessage>>), figs |-> fg,
          fault |-> NoFault]

\* Lines 139-158: what the try block yields after exec returned normally.
\* save_ok tells whether NamedTemporaryFile / savefig succeed.
SelectOutcome(fg, res, text, save_ok) ==
    IF fg > 0 THEN
        IF save_ok
        THEN [outcome |-> ImageOutcome(TempPng), figs |-> 0, fault |-> NoFault]
        ELSE [outcome |-> NoOutcome, figs |-> fg,
              fault |-> [kind |-> "Exception", desc |-> "savefig failed",
                         at |-> "capture"]]
    ELSE IF res # Unbound THEN
        IF IsDataFrame(res)
        THEN [outcome |-> TableOutcome(res), figs |-> fg, fault |-> NoFault]
        ELSE IF StrFaults(res)
        THEN [outcome |-> NoOutcome, figs |-> fg,
              fault |-> [kind |-> "Exception", desc |-> "__str__ failed",
                         at |-> "capture"]]
        ELSE [outcome |-> TextOutcome(<<Str(res)>>), figs |-> fg,
              fault |-> NoFault]
    ELSE IF Strip(text) # <<>>
        THEN [outcome |-> TextOutcome(text), figs |-> fg, fault |-> NoFault]
        ELSE [outcome |-> TextOutcome(<<SuccessMessage>>), figs |-> fg,
              fault |-> NoFault]

\* except Exception (line 160): the faults the handler catches.
Caught(f) == f.kind = "Exception"

\* Variant of Restored that puts the stream back on the normal path only.
RestoredOnSuccessOnly(old, cur, f) == IF f = NoFault THEN old ELSE cur

\* finally (line 164): the stream installed when run_code ends.
Restored(old, cur, f) == old

NumPlots(c) == Cardinality({i \in 1..Len(c) : c[i] = Plot})

\* ------------------------------------------------------ ask_llm (168-208)
HttpFaults == {"timeout", "status", "badbody"}

\* str(e) of the fault the HTTPS call raised.
FaultText(kind) ==
    CASE kind = "timeout" -> "Read timed out. (read timeout=30)"
      [] kind = "status" -> "500 Server Error"
      [] kind = "badbody" -> "Expecting value: line 1 column 1 (char 0)"
      [] OTHER -> ""

NoKeyStandIn ==
    <<Fence, Tag, NL, Hash, "Error: OPENROUTER_API_KEY missing in .env file",
      NL, PrintNoKey, NL, Fence>>

FaultStandIn(text) ==
    <<Fence, Tag, NL, Hash, "Error calling LLM: ", text, NL, PrintLlmErr, NL,
      Fence>>

\* Variant of AskLlm whose status check sits outside the try block.
AskLlmStatusUncaught(api_key, http) ==
    IF ~api_key
    THEN [text |-> NoKeyStandIn, sent |-> 0, raised |-> FALSE]
    ELSE IF http.kind = "ok"
    THEN [text |-> http.content, sent |-> 1, raised |-> FALSE]
    ELSE IF http.kind = "status"
    THEN [text |-> <<>>, sent |-> 1, raised |-> TRUE]
    ELSE [text |-> FaultStandIn(FaultText(http.kind)), sent |-> 1,
          raised |-> FALSE]

\* ask_llm: the text it returns, the requests it sent, whether it raised.
AskLlm(api_key, http) ==
    IF ~api_key
    THEN [text |-> NoKeyStandIn, sent |-> 0, raised |-> FALSE]
    ELSE IF http.kind = "ok"
    THEN [text |-> http.content, sent |-> 1, raised |-> FALSE]
    ELSE [text |-> FaultStandIn(FaultText(http.kind)), sent |-> 1,
          raised |-> FALSE]

\* ------------------------------ re.search(r"```python(.*?)```", s, DOTALL)
NoMatch == [found |-> FALSE, group |-> <<>>]

RECURSIVE FirstFenceFrom(_, _)
FirstFenceFrom(s, j) ==
    IF j > Len(s) THEN 0
    ELSE IF s[j] = Fence THEN j
    ELSE FirstFenceFrom(s, j + 1)

RECURSIVE LastFenceFrom(_, _)
LastFenceFrom(s, j) ==
    IF j > Len(s) THEN 0
    ELSE IF LastFenceFrom(s, j + 1) # 0 THEN LastFenceFrom(s, j + 1)
    ELSE IF s[j] = Fence THEN j
    ELSE 0

\* Variant of Search with a greedy group: (.*) instead of (.*?).
RECURSIVE SearchGreedy(_, _)
SearchGreedy(s, i) ==
    IF i + 1 > Len(s) THEN NoMatch
    ELSE IF s[i] = Fence /\ s[i + 1] = Tag /\ LastFenceFrom(s, i + 2) # 0
    THEN [found |-> TRUE,
          group |-> SubSeq(s, i + 2, LastFenceFrom(s, i + 2) - 1)]
    ELSE SearchGreedy(s, i + 1)

\* The leftmost match starting at position i or later; the lazy group ends
\* at the first fence after the opening.
RECURSIVE Search(_, _)
Search(s, i) ==
    IF i + 1 > Len(s) THEN NoMatch
    ELSE IF s[i] = Fence /\ s[i + 1] = Tag /\ FirstFenceFrom(s, i + 2) # 0
    THEN [found |-> TRUE,
          group |-> SubSeq(s, i + 2, FirstFenceFrom(s, i + 2) - 1)]
    ELSE Search(s, i + 1)

\* ------------------------------------------------------------ ap.py inputs
Queries == {<<>>, <<" ">>, <<"Show first 10 rows of the dataset.">>}
IsBlank(q) == q = <<>> \/ Strip(q) = <<>>

HttpResults ==
    {[kind |-> k, content |-> <<>>] : k \in HttpFaults}
    \cup {[kind |-> "ok", content |-> r] : r \in Responses}

\* ------------------------------------------------------------------- state
VARIABLES
    pc,            \* position of the script / of run_code
    stdout,        \* sys.stdout
    figs,          \* number of figures plt.get_fignums() reports
    running,       \* run_code invocations entered and not yet left
    code,          \* run_code's argument
    rest,          \* statements exec has still to run
    old_stdout,    \* run_code's local old_stdout
    buffer,        \* contents of run_code's StringIO buffer
    local_result,  \* local_vars["result"], Unbound when absent
    fault,         \* fault raised in the current invocation
    outcome,       \* value run_code returned
    prev_fault,    \* fault of the invocation before the current one
    llm_response,  \* ap.py: text ask_llm returned
    llm_case,      \* ap.py: how ask_llm obtained it
    requests_sent, \* HTTPS requests sent by the current script run
    ui             \* what the script run has rendered

process_vars == <<stdout, figs>>
frame_vars == <<code, rest, old_stdout, buffer, local_result, fault, outcome>>
page_vars == <<llm_response, llm_case, requests_sent, ui>>
vars == <<pc, running, prev_fault, process_vars, frame_vars, page_vars>>

BlankUi == [warning |-> FALSE, error |-> FALSE, load_error |-> FALSE,
            raw |-> <<>>, code_shown |-> FALSE, shown_code |-> <<>>,
            results |-> <<>>]

Init ==
    /\ pc = "idle"
    /\ stdout = ConsoleStream
    /\ figs = 0
    /\ running = 0
    /\ code = <<>>
    /\ rest = <<>>
    /\ old_stdout = ConsoleStream
    /\ buffer = <<>>
    /\ local_result = Unbound
    /\ fault = NoFault
    /\ outcome = NoOutcome
    /\ prev_fault = NoFault
    /\ llm_response = <<>>
    /\ llm_case = "none"
    /\ requests_sent = 0
    /\ ui = BlankUi

\* ---------------------------------------------------------------- run_code
\* Lines 132-134: locals built, stdout saved and replaced by a fresh buffer.
Enter(c) ==
    /\ figs + NumPlots(c) <= MaxFigs
    /\ code' = c
    /\ rest' = ParseStmts(c)
    /\ old_stdout' = stdout
    /\ stdout' = BufferStream
    /\ buffer' = <<>>
    /\ local_result' = Unbound
    /\ fault' = NoFault
    /\ outcome' = NoOutcome
    /\ running' = running + 1
    /\ UNCHANGED prev_fault
    /\ pc' = "exec"
    /\ UNCHANGED figs

\* Line 137: exec runs the next statement of the snippet.
ExecStep ==
    /\ pc = "exec"
    /\ rest # <<>>
    /\ LET r == ExecStmt(Head(rest), figs, stdout, buffer, local_result) IN
        /\ figs' = r.figs
        /\ buffer' = r.buffer
        /\ local_result' = r.result
        /\ fault' = r.fault
        /\ rest' = Tail(rest)
        /\ pc' = IF r.fault = NoFault THEN "exec" ELSE "raised"
    /\ UNCHANGED <<stdout, running, code, old_stdout, outcome, prev_fault,
                   page_vars>>

\* Lines 139-164 after exec returned: the outcome is chosen; a fault of the
\* capture itself is handled by the except clause; finally restores stdout.
Capture ==
    /\ pc = "exec"
    /\ rest = <<>>
    /\ \E save_ok \in BOOLEAN :
        LET r == SelectOutcome(figs, local_result, buffer, save_ok) IN
        /\ figs' = r.figs
        /\ fault' = r.fault
        /\ IF r.fault = NoFault
           THEN outcome' = r.outcome /\ pc' = "returned"
           ELSE IF Caught(r.fault)
           THEN outcome' = ErrorOutcome(r.fault.desc) /\ pc' = "returned"
           ELSE outcome' = NoOutcome /\ pc' = "escaped"
        /\ stdout' = Restored(old_stdout, stdout, r.fault)
    /\ running' = running - 1
    /\ UNCHANGED <<code, rest, old_stdout, buffer, local_result, prev_fault,
                   page_vars>>

\* Lines 160-164 after exec raised: except Exception builds the error text,
\* any other fault propagates; finally restores stdout on both paths.
Handle ==
    /\ pc = "raised"
    /\ IF Caught(fault)
       THEN outcome' = ErrorOutcome(fault.desc) /\ pc' = "returned"
       ELSE outcome' = NoOutcome /\ pc' = "escaped"
    /\ stdout' = Restored(old_stdout, stdout, fault)
    /\ running' = running - 1
    /\ UNCHANGED <<figs, code, rest, old_stdout, buffer, local_result, fault,
                   prev_fault, page_vars>>

\* ------------------------------------------------- run_code called directly
\* The frame of a finished invocation is gone: only the process state stays.
DropFrame ==
    /\ code' = <<>>
    /\ rest' = <<>>
    /\ old_stdout' = ConsoleStream
    /\ buffer' = <<>>
    /\ local_result' = Unbound
    /\ outcome' = NoOutcome
    /\ prev_fault' = fault
    /\ fault' = NoFault

\* A caller hands run_code any snippet.
DirectCall ==
    /\ pc = "idle"
    /\ \E c \in Snippets : Enter(c)
    /\ UNCHANGED page_vars

\* The caller has the outcome (or the escaped fault) and may call again.
Collect ==
    /\ pc \in {"returned", "escaped"}
    /\ DropFrame
    /\ pc' = "idle"
    /\ UNCHANGED <<running, process_vars, page_vars>>

Next == DirectCall \/ ExecStep \/ Capture \/ Handle \/ Collect

Spec == Init /\ [][Next]_vars

\* ------------------------------------------------- ap.py: "Run Analysis"
\* Variant of AtCallSite that lets the call start while a run is under way.
AtCallSiteOrRunning == pc \in {"call", "exec"}

\* Line 98 is reached once per script run, after the code was extracted.
AtCallSite == pc = "call"

\* Lines 75-94: the button is pressed; blank query -> warning; otherwise
\* ask_llm, the regex search, and either the error with the raw response or
\* the extracted code shown.
RunAnalysis ==
    /\ pc = "idle"
    /\ \E q \in Queries, api_key \in BOOLEAN, http \in HttpResults :
        IF IsBlank(q) THEN
            /\ ui' = [BlankUi EXCEPT !.warning = TRUE]
            /\ pc' = "shown"
            /\ UNCHANGED <<code, llm_response, llm_case, requests_sent>>
        ELSE
            LET r == AskLlm(api_key, http)
                m == Search(r.text, 1)
            IN  /\ llm_response' = r.text
                /\ llm_case' = IF ~api_key THEN "nokey" ELSE http.kind
                /\ requests_sent' = r.sent
                /\ IF r.raised THEN
                        /\ ui' = [BlankUi EXCEPT !.load_error = TRUE]
                        /\ pc' = "shown"
                        /\ UNCHANGED code
                   ELSE IF ~m.found THEN
                        /\ ui' = [BlankUi EXCEPT !.error = TRUE, !.raw = r.text]
                        /\ pc' = "shown"
                        /\ UNCHANGED code
                   ELSE
                        /\ code' = Strip(m.group)
                        /\ ui' = [BlankUi EXCEPT !.code_shown = TRUE,
                                                !.shown_code = Strip(m.group)]
                        /\ pc' = "call"
    /\ UNCHANGED <<running, prev_fault, process_vars, rest, old_stdout, buffer,
                   local_result, fault, outcome>>

\* Line 98: output = run_code(df, code).
CallRunCode ==
    /\ AtCallSite
    /\ Enter(code)
    /\ UNCHANGED page_vars

\* Lines 100-119: the outcome is rendered according to its tag.
Render ==
    /\ pc = "returned"
    /\ ui' = [ui EXCEPT !.results = Append(@, outcome.type)]
    /\ pc' = "shown"
    /\ UNCHANGED <<running, prev_fault, process_vars, frame_vars, llm_response,
                   llm_case, requests_sent>>

\* A fault that left run_code is no Exception: line 121 does not catch it
\* and the script run ends without a result.
Abort ==
    /\ pc = "escaped"
    /\ pc' = "crashed"
    /\ UNCHANGED <<running, prev_fault, process_vars, frame_vars, page_vars>>

\* The script run is over; the page waits for the next button press.
Rerun ==
    /\ pc \in {"shown", "crashed"}
    /\ DropFrame
    /\ llm_response' = <<>>
    /\ llm_case' = "none"
    /\ requests_sent' = 0
    /\ ui' = BlankUi
    /\ pc' = "idle"
    /\ UNCHANGED <<running, process_vars>>

PipeNext ==
    RunAnalysis \/ CallRunCode \/ ExecStep \/ Capture \/ Handle \/ Render
    \/ Abort \/ Rerun

PipeSpec == Init /\ [][PipeNext]_vars

\* ============================================================ the executor
Left == pc \in {"returned", "escaped"}
CaptureStep == pc = "exec" /\ rest = <<>>
HasText(s) == \E i \in 1..Len(s) : s[i] \notin Whitespace

\* C1: every fault raised while run_code executes a snippet ends in a return
\* with the text outcome made of the error marker and the fault's
\* description; no fault escapes.
C1_NoFaultEscapes ==
    (Left /\ fault # NoFault) =>
        (pc = "returned" /\ outcome = ErrorOutcome(fault.desc))

\* C2: during the run sys.stdout is the in-memory buffer, and on every exit
\* path it is again the stream that was installed at entry.
C2_StdoutRestored ==
    /\ pc \in {"exec", "raised"} => stdout = BufferStream
    /\ Left => (stdout = old_stdout /\ stdout = ConsoleStream)

C2_Witness ==
    /\ pc = "escaped"
    /\ fault.kind = "SystemExit"
    /\ buffer # <<>>
    /\ stdout = ConsoleStream

\* C3: after every run_code invocation the figure registry holds no open
\* figure.
C3_NoOpenFigureAfterRun == Left => figs = 0

C5_TableAlwaysAsClaimed ==
    (Left /\ fault = NoFault /\ local_result \in DataFrames) =>
        outcome = TableOutcome(local_result)

\* C5 (amended): a snippet that completes without faulting with `result`
\* bound to a table, while no figure is open, yields the tabular outcome
\* holding that table, whatever was printed.
C5_TableWhenNoFigure ==
    [][(CaptureStep /\ figs = 0 /\ local_result \in DataFrames) =>
        (pc' = "returned" /\ outcome' = TableOutcome(local_result))]_vars

C5_Witness ==
    /\ pc = "returned"
    /\ outcome = TableOutcome("df.head()")
    /\ buffer # <<>>

\* The outcomes a snippet has when it runs in a fresh process (no figure
\* open, console installed); NoOutcome stands for an escaped fault.
RECURSIVE RunAll(_, _)
RunAll(stmts, st) ==
    IF stmts = <<>> \/ st.fault # NoFault THEN st
    ELSE RunAll(Tail(stmts),
                ExecStmt(Head(stmts), st.figs, BufferStream, st.buffer, st.result))

FreshOutcomes(c) ==
    LET end == RunAll(ParseStmts(c),
                      [figs |-> 0, buffer |-> <<>>, result |-> Unbound,
                       fault |-> NoFault])
        Final(f, o) == IF f = NoFault THEN o
                       ELSE IF Caught(f) THEN ErrorOutcome(f.desc)
                       ELSE NoOutcome
    IN  IF end.fault # NoFault THEN {Final(end.fault, NoOutcome)}
        ELSE {Final(SelectOutcome(end.figs, end.result, end.buffer, ok).fault,
                    SelectOutcome(end.figs, end.result, end.buffer, ok).outcome)
              : ok \in BOOLEAN}

\* C6: after an invocation whose snippet raised a fault, the next invocation
\* yields what its snippet yields as a first invocation; a snippet that only
\* prints "ok" yields exactly its printed text.
C6_NoStateBetweenRuns ==
    (Left /\ prev_fault.at = "snippet") =>
        /\ outcome \in FreshOutcomes(code)
        /\ code = <<PrintOk>> => outcome = TextOutcome(<<"ok", NL>>)

\* C7 (as claimed): a snippet that completes, opens no figure and binds no
\* `result` yields its printed text if it printed anything, and the success
\* message only if it printed nothing.
C7_PrintedAsClaimed ==
    [][(CaptureStep /\ NumPlots(code) = 0 /\ local_result = Unbound) =>
        outcome' = IF buffer # <<>> THEN TextOutcome(buffer)
                   ELSE TextOutcome(<<SuccessMessage>>)]_vars

\* C7 (amended): when the snippet completes, no figure is open and `result`
\* is unbound, the outcome is the printed text if it holds a non-whitespace
\* character, and the success message if the text is empty or whitespace.
C7_PrintedUnlessBlank ==
    [][(CaptureStep /\ figs = 0 /\ local_result = Unbound) =>
        outcome' = IF HasText(buffer) THEN TextOutcome(buffer)
                   ELSE TextOutcome(<<SuccessMessage>>)]_vars

C7_Witness ==
    /\ pc = "returned"
    /\ outcome = TextOutcome(<<SuccessMessage>>)
    /\ buffer # <<>>

\* ============================================================ the pipeline
ScriptOver == pc \in {"shown", "crashed"}
Invoked == outcome # NoOutcome \/ fault # NoFault
Degraded == llm_case \in HttpFaults \cup {"nokey"}

\* C8: ask_llm never raises; without a key it returns a fenced stand-in and
\* sends no request, on a fault of the HTTPS call it returns a fenced
\* stand-in embedding the fault text; in both cases the script run ends
\* with the code shown and exactly one execution result shown.
C8_DegradedRunStillExecutes ==
    Degraded =>
        /\ ~ui.load_error
        /\ Len(llm_response) >= 2
        /\ llm_response[1] = Fence /\ llm_response[2] = Tag
        /\ llm_response[Len(llm_response)] = Fence
        /\ llm_case = "nokey" => requests_sent = 0
        /\ llm_case \in HttpFaults =>
              \E i \in 1..Len(llm_response) :
                  llm_response[i] = FaultText(llm_case)
        /\ ui.code_shown
        /\ ScriptOver =>
              (pc = "shown" /\ Invoked /\ Len(ui.results) = 1)

C8_Witness ==
    /\ pc = "shown"
    /\ llm_case = "status"
    /\ requests_sent = 1
    /\ ui.results = <<"image">>

\* The first fenced region of a response: from its first fence to the next.
Fences(s) == {i \in 1..Len(s) : s[i] = Fence}
HasFencedRegion(s) == Cardinality(Fences(s)) >= 2
Least(S) == CHOOSE i \in S : \A j \in S : i <= j
FirstRegion(s) ==
    LET open == Least(Fences(s))
        close == Least(Fences(s) \ {open})
        body == SubSeq(s, open + 1, close - 1)
    IN  IF body # <<>> /\ Head(body) = Tag THEN Tail(body) ELSE body

TaggedOpenings(s) ==
    {i \in 1..(Len(s) - 2) :
        s[i] = Fence /\ s[i + 1] = Tag
        /\ \E j \in (i + 2)..Len(s) : s[j] = Fence}
TaggedRegion(s) ==
    LET open == Least(TaggedOpenings(s))
        close == Least({j \in (open + 2)..Len(s) : s[j] = Fence})
    IN  SubSeq(s, open + 2, close - 1)

====
